---- MODULE Spec2Model ----
(***************************************************************************)
(* Model of check_speedtest.py, a Nagios/Icinga plugin that runs           *)
(* speedtest-cli, extracts the download and upload speed from its output,  *)
(* compares them with the configured thresholds and exits with an Icinga   *)
(* status line.                                                            *)
(*                                                                         *)
(* One behaviour of the model is one run of the process.  Speeds and       *)
(* thresholds are floats in the program; the model uses naturals, which    *)
(* keeps the order and the value 0.0 (the only float that is falsy).       *)
(***************************************************************************)
EXTENDS Integers, Sequences, FiniteSets, TLC

\* Largest threshold / max value an argument may carry.
MaxThreshold == 2
\* Largest speed the child process may report.
MaxSpeed == 3
\* Largest server id given with -s (server ids are positive).
MaxServer == 1

ICINGA_OK == 0
ICINGA_WARNING == 1
ICINGA_CRITICAL == 2
ICINGA_UNKNOWN == 3
ICINGA_LABELS == [l \in 0..3 |->
    CASE l = 0 -> "OK" [] l = 1 -> "WARNING" [] l = 2 -> "CRITICAL" [] OTHER -> "UNKNOWN"]
SPEEDTEST_CMD == "speedtest-cli"

(***************************************************************************)
(* Python values.  Every value is a record of the same shape:              *)
(*   None, a float, a string that float() accepts, a string it rejects.    *)
(***************************************************************************)
None == [tag |-> "None", v |-> 0]
Float(x) == [tag |-> "float", v |-> x]
NumStr(x) == [tag |-> "str", v |-> x]
BadStr == [tag |-> "badstr", v |-> 0]
IntVal(x) == [tag |-> "int", v |-> x]

\* bool(x): None and 0 / 0.0 are falsy, every non-empty string is truthy.
Truthy(x) ==
    CASE x.tag = "None" -> FALSE
      [] x.tag = "float" -> x.v # 0
      [] x.tag = "int" -> x.v # 0
      [] OTHER -> TRUE

\* float(x) raises ValueError on a string that is not a number.
FloatRaises(x) == x.tag = "badstr"
ToFloat(x) == Float(x.v)

\* a < b raises TypeError when one side is None.
LtRaises(a, b) == a.tag = "None" \/ b.tag = "None"
Lt(a, b) == a.v < b.v
Le(a, b) == a.v <= b.v

\* The values an option taking a number can have after argparse.
ThresholdArgs == {None, BadStr} \cup {NumStr(x) : x \in 1..MaxThreshold}
ServerArgs == {None} \cup {IntVal(x) : x \in 1..MaxServer}

Args == [debug2 : BOOLEAN, no_download : BOOLEAN, no_upload : BOOLEAN,
         always_ok : BOOLEAN, server : ServerArgs,
         download_warning : ThresholdArgs, download_critical : ThresholdArgs,
         upload_warning : ThresholdArgs, upload_critical : ThresholdArgs,
         download_max : ThresholdArgs, upload_max : ThresholdArgs]

\* What the two regular expressions capture in the child's output:
\* no matching line, a capture float() rejects, or a number.
Captures == {None, BadStr} \cup {NumStr(x) : x \in 0..MaxSpeed}
Outputs == [Download : Captures, Upload : Captures]

VARIABLES
    args,          \* the parsed command line (argparse namespace)
    self,          \* the fields of the CheckCommand object
    pc,            \* position of the process
    command,       \* the argument list composed for the child
    spawn_count,   \* number of child processes spawned
    child_done,    \* the child has completed
    output,        \* the captured output of the child
    levels,        \* exit_level, download_level, upload_level of _parse_results
    lines,         \* the status lines printed, each with its stream
    traceback,     \* text of the uncaught exception that ended the process, "" if none
    exit_code      \* the exit code, meaningful once pc = "exit"

vars == <<args, self, pc, command, spawn_count, child_done, output, levels,
          lines, traceback, exit_code>>

(***************************************************************************)
(* Output: a status line and its parts.                                    *)
(***************************************************************************)
NoPart == [text |-> "", value |-> None, tag |-> ""]
ErrorDetails(message) ==
    [kind |-> "error", msg |-> message, download |-> NoPart, upload |-> NoPart]

\* A field of a perfdata entry: the literal NaN, str() of a float, or a
\* value followed by its unit.
NaN == [s |-> "NaN", v |-> 0]
Str(x) == [s |-> "str", v |-> x.v]
WithUnit(x) == [s |-> "Mbit/sec", v |-> x.v]

\* icinga_exit with the stream not chosen by the level (every line on
\* standard output): the variant C5 is checked against.
icinga_exit_stdout(level, details, perfdata) ==
    [stream |-> "stdout",
     label |-> ICINGA_LABELS[level],
     details |-> details,
     perfdata |-> perfdata,
     code |-> level]

\* icinga_exit: the stream, the label, the line's parts and the exit code.
icinga_exit(level, details, perfdata) ==
    [stream |-> IF level = ICINGA_OK THEN "stdout" ELSE "stderr",
     label |-> ICINGA_LABELS[level],
     details |-> details,
     perfdata |-> perfdata,
     code |-> level]

exit_with_error(message) == icinga_exit(ICINGA_UNKNOWN, ErrorDetails(message), <<>>)

(***************************************************************************)
(* CheckCommand._manage_arguments                                          *)
(***************************************************************************)
\* getattr + "if x: x = float(x)"
LoadFloat(x) == IF Truthy(x) /\ ~FloatRaises(x) THEN ToFloat(x) ELSE x

ThresholdNames == <<"download_warning", "download_critical", "upload_warning",
                    "upload_critical", "download_max", "upload_max">>

\* A float() call of _manage_arguments raises ValueError.
FloatFails(a) == \E i \in 1..6 : Truthy(a[ThresholdNames[i]]) /\ FloatRaises(a[ThresholdNames[i]])

LoadArguments(a) ==
    [debug2 |-> a.debug2, no_download |-> a.no_download, no_upload |-> a.no_upload,
     always_ok |-> a.always_ok, server |-> a.server,
     download_warning |-> LoadFloat(a.download_warning),
     download_critical |-> LoadFloat(a.download_critical),
     upload_warning |-> LoadFloat(a.upload_warning),
     upload_critical |-> LoadFloat(a.upload_critical),
     download_max |-> LoadFloat(a.download_max),
     upload_max |-> LoadFloat(a.upload_max),
     download_speed |-> None, upload_speed |-> None]

Ok(s) == [kind |-> "ok", msg |-> "", self |-> s]
Exit(s, m) == [kind |-> "exit", msg |-> m, self |-> s]
Raise(s, m) == [kind |-> "raise", msg |-> m, self |-> s]

\* "Check download max level" / "Check upload max level": the outcome of the
\* two comparisons of one direction's max.
CheckMax(max, critical, warning) ==
    IF ~Truthy(max) THEN "pass"
    ELSE IF LtRaises(max, critical) THEN "TypeError"
    ELSE IF Lt(max, critical) THEN "critical"
    ELSE IF LtRaises(max, warning) THEN "TypeError"
    ELSE IF Lt(max, warning) THEN "warning"
    ELSE "pass"

\* The warning/critical check with < in place of <= (equal levels accepted):
\* the variant C10 is checked against.
WarningNotBiggerStrict(warning, critical) ==
    Truthy(warning) /\ Truthy(critical) /\ Lt(warning, critical)
\* Warning must be bigger than critical.
WarningNotBigger(warning, critical) ==
    Truthy(warning) /\ Truthy(critical) /\ Le(warning, critical)

_manage_arguments(a) ==
    IF FloatFails(a) THEN Raise(LoadArguments(a), "could not convert string to float")
    ELSE LET s == LoadArguments(a)
             dmax == CheckMax(s.download_max, s.download_critical, s.download_warning)
             umax == CheckMax(s.upload_max, s.upload_critical, s.upload_warning)
         IN
         IF s.no_download /\ (Truthy(s.download_warning) \/ Truthy(s.download_critical)
                                \/ Truthy(s.download_max))
         THEN Exit(s, "You must not specify download warning, critical or max levels if --no-download specified!")
         ELSE IF s.no_upload /\ (Truthy(s.upload_warning) \/ Truthy(s.upload_critical)
                                   \/ Truthy(s.upload_max))
         THEN Exit(s, "You must not specify upload warning, critical or max levels if --no-upload specified!")
         ELSE IF WarningNotBigger(s.download_warning, s.download_critical)
         THEN Exit(s, "Download warning level must be bigger than download critical level!")
         ELSE IF WarningNotBigger(s.upload_warning, s.upload_critical)
         THEN Exit(s, "Upload warning level must be bigger than upload critical level!")
         ELSE IF dmax = "TypeError"
         THEN Raise(s, "'<' not supported between instances of 'float' and 'NoneType'")
         ELSE IF dmax = "critical"
         THEN Exit(s, "Download max level cannot be lower than download critical level!")
         ELSE IF dmax = "warning"
         THEN Exit(s, "Download max level cannot be lower than download warning level!")
         ELSE IF umax = "TypeError"
         THEN Raise(s, "'<' not supported between instances of 'float' and 'NoneType'")
         ELSE IF umax = "critical"
         THEN Exit(s, "Upload max level cannot be lower than upload critical level!")
         ELSE IF umax = "warning"
         THEN Exit(s, "Upload max level cannot be lower than upload warning level!")
         ELSE Ok(s)

(***************************************************************************)
(* CheckCommand._compose_speedtest_command                                 *)
(***************************************************************************)
StrTok(t) == [kind |-> "str", s |-> t, n |-> 0]
IntTok(x) == [kind |-> "int", s |-> "", n |-> x.v]

\* The list handed to subprocess.run.
ComposeCommand(s) ==
    <<StrTok(SPEEDTEST_CMD)>>
    \o (IF s.no_download THEN <<StrTok("--no-download")>> ELSE <<>>)
    \o (IF s.no_upload THEN <<StrTok("--no-upload")>> ELSE <<>>)
    \o (IF Truthy(s.server) THEN <<StrTok("--server"), IntTok(s.server)>> ELSE <<>>)

\* subprocess.run raises TypeError on an argument that is no str, bytes or path,
\* and FileNotFoundError when the executable is not on the search path.
ArgumentTypeError == "expected str, bytes or os.PathLike object, not int"
NotFoundError == "[Errno 2] No such file or directory: 'speedtest-cli'"
RunRaises(cmd) == \E i \in 1..Len(cmd) : cmd[i].kind # "str"

(***************************************************************************)
(* CheckCommand._parse_output                                              *)
(***************************************************************************)
\* matches.group(1) of no match, or float() of the capture, raises: None.
ParseSpeed(capture) ==
    IF capture.tag = "None" \/ FloatRaises(capture) THEN None ELSE ToFloat(capture)

_parse_output(s, out) ==
    [s EXCEPT !.download_speed = ParseSpeed(out.Download),
              !.upload_speed = ParseSpeed(out.Upload)]

(***************************************************************************)
(* CheckCommand._compose_level_string, _compose_output_message,            *)
(* _compose_perfdata                                                       *)
(***************************************************************************)
\* Called with print_ok=False, prepend=" " and the default delimiters.
_compose_level_string(level) ==
    IF level = 0 THEN ""
    ELSE IF level = 1 THEN " [WARNING]"
    ELSE IF level = 2 THEN " [CRITICAL]"
    ELSE " [UNKNOWN]"

_compose_output_message(download_speed, upload_speed, download_result_level, upload_result_level) ==
    [kind |-> "summary", msg |-> "",
     download |->
        IF Truthy(download_speed)
        THEN [text |-> "Download speed: {} Mbit/sec{}", value |-> download_speed,
              tag |-> _compose_level_string(download_result_level)]
        ELSE [text |-> "No download speed", value |-> None, tag |-> ""],
     upload |->
        IF Truthy(download_speed)
        THEN [text |-> "Upload speed: {} Mbit/sec{}", value |-> upload_speed,
              tag |-> _compose_level_string(upload_result_level)]
        ELSE [text |-> "No upload speed", value |-> None, tag |-> ""]]

StrOrNaN(x) == IF Truthy(x) THEN Str(x) ELSE NaN

_compose_perfdata(download_speed, download_warning, download_critical, max_download_speed, upload_speed, upload_warning, upload_critical, max_upload_speed) ==
    <<[label |-> "download_speed",
       value |-> IF Truthy(download_speed) THEN WithUnit(download_speed) ELSE NaN,
       warn |-> StrOrNaN(download_warning),
       crit |-> StrOrNaN(download_critical),
       min |-> IF Truthy(max_upload_speed) THEN Str(Float(0)) ELSE NaN,
       max |-> StrOrNaN(max_download_speed)],
      [label |-> "upload_speed",
       value |-> IF Truthy(upload_speed) THEN WithUnit(upload_speed) ELSE NaN,
       warn |-> StrOrNaN(upload_warning),
       crit |-> StrOrNaN(upload_critical),
       min |-> IF Truthy(max_upload_speed) THEN Str(Float(0)) ELSE NaN,
       max |-> StrOrNaN(max_upload_speed)]>>

(***************************************************************************)
(* CheckCommand._parse_results                                             *)
(***************************************************************************)
NoLevels == [exit_level |-> 0, download_level |-> 0, upload_level |-> 0]

\* "threshold and speed < threshold": skipped, raising, true or false.
Below(threshold, speed) ==
    IF ~Truthy(threshold) THEN "skip"
    ELSE IF LtRaises(speed, threshold) THEN "TypeError"
    ELSE IF Lt(speed, threshold) THEN "yes"
    ELSE "no"

\* The four checks in the order of the code; each assigns only when it hits.
EvaluateLevels(s) ==
    LET l0 == NoLevels
        l1 == IF Below(s.download_warning, s.download_speed) = "yes"
              THEN [l0 EXCEPT !.exit_level = 1, !.download_level = 1] ELSE l0
        l2 == IF Below(s.upload_warning, s.upload_speed) = "yes"
              THEN [l1 EXCEPT !.exit_level = 1, !.upload_level = 1] ELSE l1
        l3 == IF Below(s.download_critical, s.download_speed) = "yes"
              THEN [l2 EXCEPT !.exit_level = 2, !.download_level = 2] ELSE l2
        l4 == IF Below(s.upload_critical, s.upload_speed) = "yes"
              THEN [l3 EXCEPT !.exit_level = 2, !.upload_level = 2] ELSE l3
    IN  l4

EvaluateRaises(s) ==
    \/ Below(s.download_warning, s.download_speed) = "TypeError"
    \/ Below(s.upload_warning, s.upload_speed) = "TypeError"
    \/ Below(s.download_critical, s.download_speed) = "TypeError"
    \/ Below(s.upload_critical, s.upload_speed) = "TypeError"

\* The outcome of _parse_results: kind "exit" with the status line, or kind
\* "raise" with the exception's text.
_parse_results(s) ==
    IF ~Truthy(s.download_speed) /\ ~Truthy(s.upload_speed)
    THEN [kind |-> "exit", msg |-> "", levels |-> NoLevels,
          line |-> exit_with_error("No download and upload speed recognised")]
    ELSE IF ~s.always_ok /\ EvaluateRaises(s)
    THEN [kind |-> "raise",
          msg |-> "'<' not supported between instances of 'NoneType' and 'float'",
          levels |-> NoLevels,
          line |-> exit_with_error("'<' not supported between instances of 'NoneType' and 'float'")]
    ELSE LET l == IF s.always_ok THEN NoLevels ELSE EvaluateLevels(s)
         IN  [kind |-> "exit", msg |-> "", levels |-> l,
              line |-> icinga_exit(
                  l.exit_level,
                  _compose_output_message(s.download_speed, s.upload_speed,
                                          l.download_level, l.upload_level),
                  _compose_perfdata(s.download_speed, s.download_warning,
                                    s.download_critical, s.download_max,
                                    s.upload_speed, s.upload_warning,
                                    s.upload_critical, s.upload_max))]

(***************************************************************************)
(* The run: __main__, CheckCommand.__init__ and CheckCommand.handle        *)
(***************************************************************************)
Init ==
    /\ args \in Args
    /\ self = LoadArguments([debug2 |-> FALSE, no_download |-> FALSE,
                             no_upload |-> FALSE, always_ok |-> FALSE,
                             server |-> None,
                             download_warning |-> None, download_critical |-> None,
                             upload_warning |-> None, upload_critical |-> None,
                             download_max |-> None, upload_max |-> None])
    /\ pc = "init"
    /\ command = <<>>
    /\ spawn_count = 0
    /\ child_done = FALSE
    /\ output = [Download |-> None, Upload |-> None]
    /\ levels = NoLevels
    /\ lines = <<>>
    /\ traceback = ""
    /\ exit_code = 0

\* print(msg, file=stream); sys.exit(level)
PrintAndExit(line) ==
    /\ lines' = Append(lines, [stream |-> line.stream, label |-> line.label,
                               details |-> line.details, perfdata |-> line.perfdata])
    /\ exit_code' = line.code
    /\ traceback' = traceback
    /\ pc' = "exit"

\* An exception nobody catches: the interpreter prints the traceback to
\* standard error and exits with code 1.
Uncaught(message) ==
    /\ traceback' = message
    /\ exit_code' = 1
    /\ lines' = lines
    /\ pc' = "exit"

\* An exception raised inside main.handle(): propagates with --debug2,
\* otherwise "except Exception as e: exit_with_error(e)".
RaisedInHandle(message) ==
    IF self.debug2 THEN Uncaught(message) ELSE PrintAndExit(exit_with_error(message))

\* main = CheckCommand(): outside any try block.
Construct ==
    /\ pc = "init"
    /\ LET r == _manage_arguments(args)
       IN  /\ self' = r.self
           /\ CASE r.kind = "ok" ->
                     /\ pc' = "handle"
                     /\ UNCHANGED <<lines, traceback, exit_code>>
                [] r.kind = "exit" -> PrintAndExit(exit_with_error(r.msg))
                [] OTHER -> Uncaught(r.msg)
    /\ UNCHANGED <<args, command, spawn_count, child_done, output, levels>>

\* handle(), first part: compose the command and call subprocess.run, which
\* either raises (bad argument list, executable not found) or spawns the child.
RunCommand ==
    /\ pc = "handle"
    /\ command' = ComposeCommand(self)
    /\ \E found \in BOOLEAN :
          IF RunRaises(command')
          THEN /\ RaisedInHandle(ArgumentTypeError)
               /\ UNCHANGED spawn_count
          ELSE IF ~found
          THEN /\ RaisedInHandle(NotFoundError)
               /\ UNCHANGED spawn_count
          ELSE /\ spawn_count' = spawn_count + 1
               /\ pc' = "wait"
               /\ UNCHANGED <<lines, traceback, exit_code>>
    /\ UNCHANGED <<args, self, child_done, output, levels>>

\* subprocess.run returns: the child has completed and its output is captured.
ChildExit ==
    /\ pc = "wait"
    /\ \E out \in Outputs : output' = out
    /\ child_done' = TRUE
    /\ pc' = "parse_output"
    /\ UNCHANGED <<args, self, command, spawn_count, levels, lines, traceback, exit_code>>

ParseOutput ==
    /\ pc = "parse_output"
    /\ self' = _parse_output(self, output)
    /\ pc' = "parse_results"
    /\ UNCHANGED <<args, command, spawn_count, child_done, output, levels, lines,
                   traceback, exit_code>>

ParseResults ==
    /\ pc = "parse_results"
    /\ LET r == _parse_results(self)
       IN  /\ levels' = r.levels
           /\ IF r.kind = "raise" THEN RaisedInHandle(r.msg) ELSE PrintAndExit(r.line)
    /\ UNCHANGED <<args, self, command, spawn_count, child_done, output>>

Next == Construct \/ RunCommand \/ ChildExit \/ ParseOutput \/ ParseResults

Spec == Init /\ [][Next]_vars

(***************************************************************************)
(* Vocabulary of the properties: the configuration invariants as the       *)
(* documentation states them, over the command line as given.              *)
(***************************************************************************)
Given(x) == x.tag # "None"

Malformed(a) == \E i \in 1..6 : a[ThresholdNames[i]].tag = "badstr"

SkipViolated(a) ==
    \/ a.no_download /\ (Given(a.download_warning) \/ Given(a.download_critical)
                           \/ Given(a.download_max))
    \/ a.no_upload /\ (Given(a.upload_warning) \/ Given(a.upload_critical)
                         \/ Given(a.upload_max))

OrderViolated(a) ==
    \/ Given(a.download_warning) /\ Given(a.download_critical)
         /\ a.download_warning.v <= a.download_critical.v
    \/ Given(a.upload_warning) /\ Given(a.upload_critical)
         /\ a.upload_warning.v <= a.upload_critical.v

MaxLower(max, critical, warning) ==
    Given(max) /\ (\/ Given(critical) /\ max.v < critical.v
                   \/ Given(warning) /\ max.v < warning.v)

MaxViolated(a) ==
    \/ MaxLower(a.download_max, a.download_critical, a.download_warning)
    \/ MaxLower(a.upload_max, a.upload_critical, a.upload_warning)

ConfigValid(a) ==
    ~Malformed(a) /\ ~SkipViolated(a) /\ ~OrderViolated(a) /\ ~MaxViolated(a)

\* The level a direction must get: CRITICAL below the critical threshold,
\* else WARNING below the warning threshold, else OK.
ExpectedLevel(speed, warning, critical) ==
    IF Given(critical) /\ speed.v < critical.v THEN ICINGA_CRITICAL
    ELSE IF Given(warning) /\ speed.v < warning.v THEN ICINGA_WARNING
    ELSE ICINGA_OK

MaxOf(a, b) == IF a >= b THEN a ELSE b

\* A capture that is a number: the metric is extracted.
Extracted(capture) == capture.tag = "str"

\* The run ended by printing one status line / the summary line.
OneLine == pc = "exit" /\ traceback = "" /\ Len(lines) = 1
SummaryLine == OneLine /\ lines[1].details.kind = "summary"
EndedUnknown ==
    /\ OneLine
    /\ exit_code = ICINGA_UNKNOWN
    /\ lines[1].label = "UNKNOWN"
    /\ lines[1].details.kind = "error"
    /\ lines[1].details.msg # ""

\* The constructor returned: the run went on to handle().
Constructed == pc \notin {"init", "exit"} \/ command # <<>>
\* The child ran to completion and the run has ended.
EndedAfterChild == pc = "exit" /\ child_done

LevelOf(label) == CHOOSE l \in 0..3 : ICINGA_LABELS[l] = label

(***************************************************************************)
(* C1: with a valid configuration, always-ok unset and both metrics        *)
(* extracted, each direction's level is CRITICAL below its critical        *)
(* threshold, else WARNING below its warning threshold, else OK (equal is  *)
(* no breach), and the exit code is the maximum of the two levels.         *)
(***************************************************************************)
C1_LevelsAndExit ==
    (/\ EndedAfterChild
     /\ ConfigValid(args)
     /\ ~args.always_ok
     /\ Extracted(output.Download)
     /\ Extracted(output.Upload))
    => LET d == ExpectedLevel(output.Download, args.download_warning, args.download_critical)
           u == ExpectedLevel(output.Upload, args.upload_warning, args.upload_critical)
       IN  /\ levels.download_level = d
           /\ levels.upload_level = u
           /\ exit_code = MaxOf(d, u)

(***************************************************************************)
(* C2: a command line that violates a configuration invariant or carries a *)
(* malformed number ends the run with UNKNOWN: exit code 3 and one status  *)
(* line starting with UNKNOWN and carrying a message; nothing else.        *)
(***************************************************************************)
C2_InvalidArgsUnknown ==
    (pc # "init" /\ ~ConfigValid(args)) => EndedUnknown

(***************************************************************************)
(* C3: with exactly one metric extracted, a valid configuration and        *)
(* always-ok unset, the run emits the summary and perfdata and exits with  *)
(* the level of the present metric's comparisons, never UNKNOWN.  Stated   *)
(* for a present metric other than 0.0, which _parse_results takes for an  *)
(* absent one (see C1).                                                    *)
(***************************************************************************)
C3_PartialExtraction ==
    (/\ EndedAfterChild
     /\ ConfigValid(args)
     /\ ~args.always_ok
     /\ Extracted(output.Download) # Extracted(output.Upload)
     /\ Extracted(output.Download) => output.Download.v > 0
     /\ Extracted(output.Upload) => output.Upload.v > 0)
    => /\ SummaryLine
       /\ Len(lines[1].perfdata) = 2
       /\ exit_code =
            IF Extracted(output.Download)
            THEN ExpectedLevel(output.Download, args.download_warning, args.download_critical)
            ELSE ExpectedLevel(output.Upload, args.upload_warning, args.upload_critical)

(***************************************************************************)
(* C4: with always-ok set and at least one metric extracted, the run exits *)
(* with OK (code 0) whatever the values and thresholds, both direction     *)
(* tags are omitted and both perfdata entries are emitted.                 *)
(***************************************************************************)
C4_AlwaysOk ==
    (/\ EndedAfterChild
     /\ ConfigValid(args)
     /\ args.always_ok
     /\ (Extracted(output.Download) \/ Extracted(output.Upload)))
    => /\ SummaryLine
       /\ exit_code = ICINGA_OK
       /\ lines[1].label = "OK"
       /\ lines[1].details.download.tag = ""
       /\ lines[1].details.upload.tag = ""
       /\ Len(lines[1].perfdata) = 2

(***************************************************************************)
(* C5: a status line is printed at most once per run; when one is printed  *)
(* the process has exited with the numeric level of the line's label, the  *)
(* line went to standard output exactly when the level is OK and to        *)
(* standard error otherwise; a run that ends without an uncaught exception *)
(* has printed exactly one.                                                *)
(***************************************************************************)
C5_StatusLine ==
    /\ Len(lines) <= 1
    /\ \A i \in 1..Len(lines) :
          /\ pc = "exit"
          /\ exit_code = LevelOf(lines[i].label)
          /\ lines[i].stream = (IF exit_code = ICINGA_OK THEN "stdout" ELSE "stderr")
    /\ (pc = "exit" /\ traceback = "") => Len(lines) = 1

\* A run that ended with the CRITICAL line on standard error and exit code 2.
C5_Witness ==
    /\ OneLine
    /\ lines[1].label = "CRITICAL"
    /\ lines[1].stream = "stderr"
    /\ exit_code = ICINGA_CRITICAL

(***************************************************************************)
(* C6: in the summary each direction is rendered from its own metric:      *)
(* "Download speed: <value> Mbit/sec" when the download speed is present,  *)
(* "No download speed" when absent, and the same for upload from the       *)
(* upload speed; the bracketed tag is appended for every level but OK.     *)
(***************************************************************************)
ExpectedTag(level) ==
    CASE level = ICINGA_OK -> ""
      [] level = ICINGA_WARNING -> " [WARNING]"
      [] level = ICINGA_CRITICAL -> " [CRITICAL]"
      [] OTHER -> " [UNKNOWN]"

C6_Summary ==
    SummaryLine =>
       /\ lines[1].details.download =
            IF Given(self.download_speed)
            THEN [text |-> "Download speed: {} Mbit/sec{}", value |-> self.download_speed,
                  tag |-> ExpectedTag(levels.download_level)]
            ELSE [text |-> "No download speed", value |-> None, tag |-> ""]
       /\ lines[1].details.upload =
            IF Given(self.upload_speed)
            THEN [text |-> "Upload speed: {} Mbit/sec{}", value |-> self.upload_speed,
                  tag |-> ExpectedTag(levels.upload_level)]
            ELSE [text |-> "No upload speed", value |-> None, tag |-> ""]

(***************************************************************************)
(* C7: in each perfdata entry the floor is 0.0 exactly when a max is       *)
(* configured for that same direction and NaN otherwise, and the ceiling   *)
(* is that direction's max or NaN.                                         *)
(***************************************************************************)
ExpectedFloor(max) == IF Given(max) THEN [s |-> "str", v |-> 0] ELSE NaN
ExpectedCeiling(max) == IF Given(max) THEN [s |-> "str", v |-> max.v] ELSE NaN

C7_PerfdataRange ==
    SummaryLine =>
       /\ Len(lines[1].perfdata) = 2
       /\ lines[1].perfdata[1].min = ExpectedFloor(args.download_max)
       /\ lines[1].perfdata[1].max = ExpectedCeiling(args.download_max)
       /\ lines[1].perfdata[2].min = ExpectedFloor(args.upload_max)
       /\ lines[1].perfdata[2].max = ExpectedCeiling(args.upload_max)

(***************************************************************************)
(* C8: when nothing else is wrong with the command line, validation        *)
(* rejects it exactly when a max is lower than a threshold that is set of  *)
(* the same direction; a max given with a threshold left unset passes and  *)
(* the run goes on to the external invocation.                             *)
(***************************************************************************)
C8_MaxValidation ==
    (/\ pc # "init"
     /\ ~Malformed(args) /\ ~SkipViolated(args) /\ ~OrderViolated(args))
    => IF MaxViolated(args) THEN EndedUnknown /\ ~Constructed ELSE Constructed

(***************************************************************************)
(* C9: for a valid configuration the command is the base command, then     *)
(* --no-download iff skip_download, --no-upload iff skip_upload, --server  *)
(* <id> iff a server id is given, and it is run: unless the executable is  *)
(* missing, the child is spawned.                                          *)
(***************************************************************************)
ExpectedCommand(a) ==
    <<SPEEDTEST_CMD>>
    \o (IF a.no_download THEN <<"--no-download">> ELSE <<>>)
    \o (IF a.no_upload THEN <<"--no-upload">> ELSE <<>>)
    \o (IF Given(a.server) THEN <<"--server", "<id>">> ELSE <<>>)

\* The command as text, and the server id it carries (its last token).
CommandText == [i \in 1..Len(command) |->
                   IF command[i].kind = "str" THEN command[i].s ELSE "<id>"]
ServerIdIn(cmd) == cmd[Len(cmd)].n

\* The exception that ended handle(), "" if none.
FailureText ==
    IF traceback # "" THEN traceback
    ELSE IF Len(lines) = 1 /\ lines[1].details.kind = "error" THEN lines[1].details.msg
    ELSE ""

C9_Command ==
    (ConfigValid(args) /\ command # <<>>)
    => /\ CommandText = ExpectedCommand(args)
       /\ Given(args.server) => ServerIdIn(command) = args.server.v
       /\ spawn_count = 1 \/ FailureText = NotFoundError

(***************************************************************************)
(* C10: the child is spawned at most once, only after validation accepted  *)
(* the command line, never once the run has ended or printed its status    *)
(* line; extraction and evaluation happen only after the child completed.  *)
(***************************************************************************)
C10_State ==
    /\ spawn_count <= 1
    /\ spawn_count = 1 => ConfigValid(args) /\ Constructed
    /\ child_done => spawn_count = 1
    /\ pc \in {"parse_output", "parse_results"} => child_done
    /\ (Given(self.download_speed) \/ Given(self.upload_speed) \/ levels # NoLevels)
          => child_done
    /\ pc \in {"init", "handle", "wait"} => lines = <<>> /\ traceback = ""

C10_Step ==
    /\ spawn_count' >= spawn_count
    /\ (pc = "exit" \/ lines # <<>> \/ traceback # "") => spawn_count' = spawn_count
    /\ spawn_count' # spawn_count => pc = "handle"

C10_SpawnOnce == []C10_State /\ [][C10_Step]_vars

\* A run that failed after its one spawn and ended there.
C10_Witness ==
    /\ EndedAfterChild
    /\ spawn_count = 1
    /\ exit_code = ICINGA_UNKNOWN

====
